---- MODULE Spec2Model ----
(***************************************************************************)
(* upload_images.js: a batch of local image files is uploaded to a GitHub  *)
(* repository through the contents API, at most CONCURRENCY at a time      *)
(* (p-queue), and the links of the uploaded files are written to           *)
(* upload_results.json.                                                    *)
(*                                                                         *)
(* Node runs the script on one thread: every action below is one           *)
(* run-to-completion step of the event loop (the synchronous start of the  *)
(* script, or the continuation that runs when an awaited request settles). *)
(***************************************************************************)
EXTENDS Integers, Sequences, FiniteSets, TLC

\* ---------------------------------------------------------------- bounds
MaxEntries == 4      \* at most this many entries in ./images (the first is no image)
MaxK     == 2        \* largest CONCURRENCY tried
MaxOther == 1        \* changes made to the store by other writers during a run
MaxBranchFiles == 1  \* image files tried when BRANCH is not the default branch

\* ------------------------------------------------------- configuration
\* the entries ./images may hold, in readdirSync's order: name and path.extname
AllEntries == << [name |-> "notes.txt", ext |-> ".txt"],
                 [name |-> "a.png",     ext |-> ".png"],
                 [name |-> "b.JPG",     ext |-> ".JPG"],
                 [name |-> "c.gif",     ext |-> ".gif"],
                 [name |-> "d.jpeg",    ext |-> ".jpeg"],
                 [name |-> "e.webp",    ext |-> ".webp"],
                 [name |-> "f.jpg",     ext |-> ".jpg"] >>
REPO_OWNER == "owner"
REPO_NAME  == "repo"
TARGET_DIR == "images"
DefaultBranch == "main"            \* the branch the store serves when no ref is given
Branches == {"main", "dev"}

null == [null |-> TRUE]            \* JavaScript null (a task's failure marker)
NoReport == << [nofile |-> TRUE] >> \* upload_results.json was not written

VARIABLES
  pc,            \* where the main flow is
  exitCode,      \* "running", or the status the process ended with (0 or 1)
  exitCause,     \* what ended the process
  dirListing,    \* fs.readdirSync(IMAGE_DIR)
  imageFiles,    \* the filtered listing of ./images
  unreadable,    \* files of the listing that fs.readFileSync cannot read
  dirExists,     \* fs.existsSync(IMAGE_DIR)
  CONCURRENCY,   \* parseInt(CONCURRENCY): an integer, or "NaN"
  BRANCH,        \* the configured target branch
  dirState,      \* the remote directory: "exists", "absent"
  store,         \* store[b][i]: version token of file i on branch b, 0 = absent
  store0,        \* the store as the run found it
  others,        \* number of changes other writers made so far
  queue,         \* p-queue: tasks added and not started, in order
  pendingCount,  \* p-queue: tasks started and not finished
  tstate,        \* tstate[i]: state of the upload task of imageFiles[i]
  sha,           \* sha[i]: the task's local variable sha (0 = null)
  lookupRes,     \* lookupRes[i]: how the task's lookup ended
  writeReq,      \* writeReq[i]: the body of the write the task issued
  writeAcc,      \* writeAcc[i]: the store accepted and applied the task's write
  lookups,       \* lookups[i]: number of lookup requests issued for file i
  writes,        \* writes[i]: number of write requests issued for file i
  value,         \* value[i]: what the task's promise was fulfilled with
  firstSettled,  \* the task whose promise was settled first (0: none yet)
  outcomes,      \* the array Promise.all resolved with
  results,       \* main's results (after filter(Boolean))
  report,        \* the content of upload_results.json
  summary,       \* the counts of the summary line
  precheck,      \* what the store answered to the container pre-check
  creation,      \* how the placeholder write ended
  stale,         \* stale[i]: the write of task i carried a token the store no longer held
  placeholders,  \* number of placeholder writes issued
  prechecks      \* number of container checks issued

vars == << pc, exitCode, exitCause, dirListing, imageFiles, unreadable, dirExists,
           CONCURRENCY, BRANCH, dirState, store, store0, others, queue, pendingCount,
           tstate, sha, lookupRes, writeReq, writeAcc, lookups, writes, value,
           firstSettled, outcomes, results, report, summary, precheck, creation, stale,
           placeholders, prechecks >>

N == Len(imageFiles)
Tasks == 1..N
\* ------------------------------------------------------ lines 31-34
\* String.prototype.toLowerCase on the extensions that occur
ToLowerCase(ext) ==
  CASE ext = ".JPG"  -> ".jpg"
    [] ext = ".PNG"  -> ".png"
    [] OTHER         -> ext

IsImage(entry) == ToLowerCase(entry.ext) \in {".jpg", ".jpeg", ".png", ".gif"}

\* fs.readdirSync(IMAGE_DIR).filter(...)
ImageFilesOf(listing) ==
  LET kept == SelectSeq(listing, IsImage)
  IN  [k \in 1..Len(kept) |-> kept[k].name]

\* ------------------------------------------------------ the remote store
\* HTTP statuses a request can end with; 0 stands for a transport error with
\* no response at all (error.response is undefined)
ErrStatuses == {0, 500}

\* the branch a contents request without ref / branch addresses
LookupBranch == DefaultBranch

\* the store applies a write iff the request names the revision it holds:
\* no sha for an object that does not exist, the current sha for one that does
StoreAccepts(req, current) ==
  IF "sha" \in DOMAIN req THEN current # 0 /\ req.sha = current
                          ELSE current = 0

\* response.data.content.download_url of an accepted write
DownloadUrl(fileName) ==
  << "https://raw.githubusercontent.com", REPO_OWNER, REPO_NAME, BRANCH,
     TARGET_DIR, fileName >>

\* ------------------------------------------------------ uploadImage
\* line 97: `https://cdn.jsdelivr.net/gh/${REPO_OWNER}/${REPO_NAME}@${BRANCH}/${targetPath}`
CdnUrl(fileName) ==
  << "https://cdn.jsdelivr.net/gh", REPO_OWNER, REPO_NAME, "@", BRANCH,
     TARGET_DIR, fileName >>

\* a lookup that treats every failure as "the object does not exist"
LookupOutcomeLoose(status, bodySha) ==
  IF status = 200 /\ bodySha = 0 THEN "fail" ELSE "write"

\* lines 70-80: what the task does when its lookup settles with `status` and a
\* body whose sha field is bodySha (0: no such field).  A 200 without sha
\* makes sha.slice throw inside the try, and the catch sees no error.response.
LookupOutcome(status, bodySha) ==
  IF status = 200
    THEN IF bodySha = 0 THEN "fail" ELSE "write"
    ELSE IF status # 404 THEN "fail" ELSE "write"

\* a write body that always has the sha field
WriteDataAlwaysSha(fileName, shaVal) ==
  [message |-> <<"upload", fileName>>, branch |-> BRANCH, sha |-> shaVal]

\* lines 83-88: the body of the write request
WriteData(fileName, shaVal) ==
  IF shaVal # 0
    THEN [message |-> <<"update", fileName>>, branch |-> BRANCH, sha |-> shaVal]
    ELSE [message |-> <<"upload", fileName>>, branch |-> BRANCH]

\* a write whose failure is not noticed
WriteOutcomeIgnoresStatus(fileName, status, hasContent) ==
  [name |-> fileName, github |-> DownloadUrl(fileName), cdn |-> CdnUrl(fileName)]

\* lines 91-106: the task's return value when its write settles with `status`;
\* hasContent: the response body has data.content
WriteOutcome(fileName, status, hasContent) ==
  IF status \in {200, 201} /\ hasContent
    THEN [name |-> fileName, github |-> DownloadUrl(fileName), cdn |-> CdnUrl(fileName)]
    ELSE null

\* ------------------------------------------------------ p-queue
\* the scheduler's part of the state, threaded through its synchronous steps
QState == [queue |-> queue, pendingCount |-> pendingCount,
           tstate |-> tstate, lookups |-> lookups]

\* a limit that is off by one
DoesConcurrentAllowAnotherOffByOne(pending, conc) == pending <= conc

\* _doesConcurrentAllowAnother
DoesConcurrentAllowAnother(pending, conc) == pending < conc

\* lines 63-72: the synchronous start of uploadImage, up to its first await
UploadImageStart(qs, i) ==
  IF i \in unreadable
    THEN [qs EXCEPT !.tstate[i] = "Threw"]
    ELSE [qs EXCEPT !.tstate[i] = "Lookup", !.lookups[i] = @ + 1]

\* the job p-queue enqueues for a task: count it, call the thunk
RunTask(qs, i) == UploadImageStart([qs EXCEPT !.pendingCount = @ + 1], i)

\* a queue that starts its first task without taking it off the queue
TryToStartAnotherNoDequeue(qs) ==
  IF qs.queue = <<>>
    THEN qs
    ELSE IF DoesConcurrentAllowAnother(qs.pendingCount, CONCURRENCY)
           THEN RunTask(qs, Head(qs.queue))
           ELSE qs

\* _tryToStartAnother
TryToStartAnother(qs) ==
  IF qs.queue = <<>>
    THEN qs
    ELSE IF DoesConcurrentAllowAnother(qs.pendingCount, CONCURRENCY)
           THEN RunTask([qs EXCEPT !.queue = Tail(@)], Head(qs.queue))
           ELSE qs

\* a queue that puts a new task in front of the waiting ones
QueueAddFront(qs, i) == TryToStartAnother([qs EXCEPT !.queue = <<i>> \o @])

\* queue.add(...)
QueueAdd(qs, i) == TryToStartAnother([qs EXCEPT !.queue = Append(@, i)])

\* _next, run when a task's promise settles
QueueNext(qs) == TryToStartAnother([qs EXCEPT !.pendingCount = @ - 1])

\* line 120: imageFiles.map(fileName => queue.add(...))
RECURSIVE MapAdd(_, _)
MapAdd(qs, i) == IF i > N THEN qs ELSE MapAdd(QueueAdd(qs, i), i + 1)

\* a constructor that lets a limit of zero through
ValidConcurrencyOffByOne(conc) == conc >= 0

\* new PQueue({ concurrency }) throws unless concurrency is a number >= 1
ValidConcurrency(conc) == conc >= 1

SetQState(qs) ==
  /\ queue' = qs.queue
  /\ pendingCount' = qs.pendingCount
  /\ tstate' = qs.tstate
  /\ lookups' = qs.lookups
\* ------------------------------------------------------ initial states
Init ==
  /\ pc = "start"
  /\ exitCode = "none"
  /\ exitCause = "none"
  /\ dirExists \in BOOLEAN
  /\ \E len \in 0..MaxEntries :
       dirListing = IF dirExists THEN SubSeq(AllEntries, 1, len) ELSE <<>>
  /\ imageFiles = ImageFilesOf(dirListing)
  /\ unreadable \in SUBSET (1..Len(imageFiles))
  /\ CONCURRENCY \in (-1)..MaxK
  /\ BRANCH \in Branches
  /\ BRANCH # DefaultBranch => Len(imageFiles) <= MaxBranchFiles
  /\ dirState \in {"exists", "absent"}
  \* a file exists (1) or not (0) on the default branch; on another branch it
  \* may also hold other content (2)
  /\ store \in [{DefaultBranch, BRANCH} -> [1..Len(imageFiles) -> {0, 1, 2}]]
  /\ \A i \in 1..Len(imageFiles) : store[DefaultBranch][i] \in {0, 1}
  \* a directory that does not exist holds no file
  /\ dirState = "absent" => \A i \in 1..Len(imageFiles) : store[DefaultBranch][i] = 0
  /\ store0 = store
  /\ others = 0
  /\ queue = <<>>
  /\ pendingCount = 0
  /\ tstate = [i \in 1..Len(imageFiles) |-> "Pending"]
  /\ sha = [i \in 1..Len(imageFiles) |-> 0]
  /\ lookupRes = [i \in 1..Len(imageFiles) |-> [kind |-> "none", token |-> 0, target |-> 0]]
  /\ writeReq = [i \in 1..Len(imageFiles) |-> null]
  /\ writeAcc = [i \in 1..Len(imageFiles) |-> FALSE]
  /\ lookups = [i \in 1..Len(imageFiles) |-> 0]
  /\ writes = [i \in 1..Len(imageFiles) |-> 0]
  /\ value = [i \in 1..Len(imageFiles) |-> null]
  /\ firstSettled = 0
  /\ outcomes = <<>>
  /\ results = <<>>
  /\ report = NoReport
  /\ summary = [success |-> 0, failure |-> 0]
  /\ precheck = "none"
  /\ creation = "none"
  /\ stale = [i \in 1..Len(imageFiles) |-> FALSE]
  /\ placeholders = 0
  /\ prechecks = 0

\* ------------------------------------------------------ the main flow
configVars == << dirListing, imageFiles, unreadable, dirExists, CONCURRENCY, BRANCH, store0 >>
taskVars == << sha, lookupRes, writeReq, writeAcc, writes, value, firstSettled, stale >>
queueVars == << queue, pendingCount, tstate, lookups >>
endVars == << outcomes, results, report, summary >>

\* process.exit(code), or the end of the script
Exit(code, cause) ==
  /\ pc' = "exited"
  /\ exitCode' = code
  /\ exitCause' = cause

\* a script that goes on without any image file
NoImagesNever(files) == FALSE

\* line 36: imageFiles.length === 0
NoImages(files) == Len(files) = 0

\* lines 25-39 and 110-113, 42-46: the synchronous start of the script
Start ==
  /\ pc = "start"
  /\ IF ~dirExists
       THEN /\ Exit("nonzero", "nodir")
            /\ UNCHANGED prechecks
       ELSE IF NoImages(imageFiles)
              THEN /\ Exit("zero", "empty")
                   /\ UNCHANGED prechecks
              ELSE /\ pc' = "precheck"
                   /\ prechecks' = prechecks + 1
                   /\ UNCHANGED << exitCode, exitCause >>
  /\ UNCHANGED << configVars, dirState, store, others, queueVars, taskVars,
                  endVars, precheck, creation, placeholders >>

\* a pre-check that never creates the placeholder
EnsureOnErrorNeverCreate(status) == "throw"

\* a pre-check that takes every failure for a missing directory
EnsureOnErrorAlwaysCreate(status) == "create"

\* lines 48-59: what ensureRemoteDirectoryExists does when its check fails
EnsureOnError(status) == IF status = 404 THEN "create" ELSE "throw"

\* lines 115-123: new PQueue, the map over imageFiles, up to await Promise.all
Schedule ==
  IF ValidConcurrency(CONCURRENCY)
    THEN /\ SetQState(MapAdd(QState, 1))
         /\ pc' = "await"
         /\ UNCHANGED << exitCode, exitCause >>
    ELSE /\ Exit("nonzero", "config")
         /\ UNCHANGED queueVars

\* line 46-47: the check finds the directory
PrecheckExists ==
  /\ pc = "precheck"
  /\ dirState = "exists"
  /\ precheck' = "exists"
  /\ Schedule
  /\ UNCHANGED << configVars, dirState, store, others, taskVars, endVars, creation,
                  placeholders, prechecks >>

\* lines 48-59: the check fails with `status`
PrecheckFails(status) ==
  /\ pc = "precheck"
  /\ status = 404 => dirState = "absent"
  /\ precheck' = IF status = 404 THEN "absent" ELSE "error"
  /\ IF EnsureOnError(status) = "create"
       THEN /\ pc' = "creating"
            /\ placeholders' = placeholders + 1
            /\ UNCHANGED << exitCode, exitCause >>
       ELSE /\ Exit("nonzero", "setup")
            /\ UNCHANGED placeholders
  /\ UNCHANGED << configVars, dirState, store, others, queueVars, taskVars, endVars,
                  creation, prechecks >>

\* lines 51-55: the placeholder was created
CreateOk ==
  /\ pc = "creating"
  /\ dirState' = "exists"
  /\ creation' = "created"
  /\ Schedule
  /\ UNCHANGED << configVars, store, others, taskVars, endVars, precheck, placeholders, prechecks >>

\* lines 51-54: the placeholder write fails; the error leaves the catch block
CreateFails ==
  /\ pc = "creating"
  /\ creation' = "failed"
  /\ Exit("nonzero", "setup")
  /\ UNCHANGED << configVars, dirState, store, others, queueVars, taskVars,
                  endVars, precheck, placeholders, prechecks >>

\* ------------------------------------------------------ the upload tasks
\* a rejected task promise is handled (p-queue's catch, then main's catch)
\* before the event loop delivers any further response
NoMicrotask == \A i \in Tasks : tstate[i] \notin {"Threw", "Rejected"}

\* a task's promise is fulfilled with v: p-queue resolves it and calls _next
Fulfil(i, v) ==
  /\ value' = [value EXCEPT ![i] = v]
  /\ firstSettled' = IF firstSettled = 0 THEN i ELSE firstSettled
  /\ SetQState(QueueNext([QState EXCEPT
                            !.tstate[i] = IF v = null THEN "Failed" ELSE "Succeeded"]))

\* what the store answers to a lookup of file i
LookupAnswer(i, status, bodySha) ==
  LET cur == store[LookupBranch][i]
  IN  /\ status = 200 => cur # 0 /\ bodySha \in {cur, 0}
      /\ status = 404 => cur = 0 /\ bodySha = 0
      /\ status \in ErrStatuses => bodySha = 0

LookupKind(status, bodySha) ==
  IF status = 200 THEN (IF bodySha = 0 THEN "nosha" ELSE "found")
  ELSE IF status = 404 THEN "absent"
  ELSE IF status = 0 THEN "noresponse" ELSE "error"

\* lines 71-92: the lookup of task i settles
LookupSettles(i, status, bodySha) ==
  /\ pc = "await"
  /\ NoMicrotask
  /\ tstate[i] = "Lookup"
  /\ LookupAnswer(i, status, bodySha)
  \* target: the token the object held on the target branch at that moment
  /\ lookupRes' = [lookupRes EXCEPT ![i] = [kind |-> LookupKind(status, bodySha),
                                             token |-> bodySha,
                                             target |-> store[BRANCH][i]]]
  /\ sha' = [sha EXCEPT ![i] = IF status = 200 THEN bodySha ELSE @]
  /\ IF LookupOutcome(status, bodySha) = "fail"
       THEN /\ Fulfil(i, null)
            /\ UNCHANGED << writeReq, writes >>
       ELSE /\ writeReq' = [writeReq EXCEPT ![i] = WriteData(imageFiles[i], sha'[i])]
            /\ writes' = [writes EXCEPT ![i] = @ + 1]
            /\ tstate' = [tstate EXCEPT ![i] = "Write"]
            /\ UNCHANGED << queue, pendingCount, lookups, value, firstSettled >>
  /\ UNCHANGED << pc, exitCode, exitCause, configVars, dirState, store, others,
                  writeAcc, stale, endVars, precheck, creation, placeholders, prechecks >>

\* the status the store rejects a write with
ConflictStatus(req) == IF "sha" \in DOMAIN req THEN 409 ELSE 422

\* what the store answers to the write of task i
WriteAnswer(i, status, hasContent) ==
  LET cur == store[BRANCH][i]
      acc == StoreAccepts(writeReq[i], cur)
  IN  /\ status = 201 => acc /\ cur = 0
      /\ status = 200 => acc /\ cur # 0
      /\ status \in {409, 422} => ~acc /\ status = ConflictStatus(writeReq[i])
      /\ hasContent => status \in {200, 201}

\* lines 91-106: the write of task i settles
WriteSettles(i, status, hasContent) ==
  /\ pc = "await"
  /\ NoMicrotask
  /\ tstate[i] = "Write"
  /\ WriteAnswer(i, status, hasContent)
  /\ writeAcc' = [writeAcc EXCEPT ![i] = status \in {200, 201}]
  /\ stale' = [stale EXCEPT ![i] = "sha" \in DOMAIN writeReq[i]
                                     /\ writeReq[i].sha # store[BRANCH][i]]
  /\ store' = IF status \in {200, 201}
                THEN [store EXCEPT ![BRANCH][i] = @ + 1]
                ELSE store
  /\ Fulfil(i, WriteOutcome(imageFiles[i], status, hasContent))
  /\ UNCHANGED << pc, exitCode, exitCause, configVars, dirState, others, sha,
                  lookupRes, writeReq, writes, endVars, precheck, creation,
                  placeholders, prechecks >>

\* line 66 threw: p-queue's catch rejects the task's promise and calls _next
TaskRejected(i) ==
  /\ pc = "await"
  /\ tstate[i] = "Threw"
  /\ SetQState(QueueNext([QState EXCEPT !.tstate[i] = "Rejected"]))
  /\ UNCHANGED << pc, exitCode, exitCause, configVars, dirState, store, others,
                  taskVars, endVars, precheck, creation, placeholders, prechecks >>

\* lines 123, 146-149: Promise.all rejects, main's catch ends the process
MainCatch ==
  /\ pc = "await"
  /\ \E i \in Tasks : tstate[i] = "Rejected"
  /\ Exit("nonzero", "task")
  /\ UNCHANGED << configVars, dirState, store, others, queueVars, taskVars,
                  endVars, precheck, creation, placeholders, prechecks >>

\* results gathered as the tasks finish: the first to settle comes first
PromiseAllBySettle ==
  [k \in Tasks |-> IF firstSettled = 0 THEN value[k]
                   ELSE IF k = 1 THEN value[firstSettled]
                   ELSE IF k <= firstSettled THEN value[k - 1]
                   ELSE value[k]]

\* Promise.all(uploadTasks): the values in the order of the promises
PromiseAll == [i \in Tasks |-> value[i]]

\* Boolean(x) on a task's return value
JsBoolean(x) == x # null

\* a report built back to front
LinksArrayReversed(rs) ==
  [k \in 1..Len(rs) |-> [name |-> rs[Len(rs) + 1 - k].name,
                         github |-> rs[Len(rs) + 1 - k].github,
                         cdn |-> rs[Len(rs) + 1 - k].cdn]]

\* lines 130-134
LinksArray(rs) ==
  [k \in 1..Len(rs) |-> [name |-> rs[k].name, github |-> rs[k].github, cdn |-> rs[k].cdn]]

\* lines 123-145: every task promise is fulfilled; the report is written and
\* the script ends
Finish ==
  /\ pc = "await"
  /\ \A i \in Tasks : tstate[i] \in {"Succeeded", "Failed"}
  /\ outcomes' = PromiseAll
  /\ results' = SelectSeq(outcomes', JsBoolean)
  /\ summary' = [success |-> Len(results'), failure |-> Len(imageFiles) - Len(results')]
  /\ report' = LinksArray(results')
  /\ Exit("zero", "done")
  /\ UNCHANGED << configVars, dirState, store, others, queueVars, taskVars,
                  precheck, creation, placeholders, prechecks >>

\* ------------------------------------------------------ the environment
\* another writer changes (or deletes, or creates) file i on the target branch
\* between the lookup of the file's task and its write; what other writers did
\* before the lookup is part of the initial store
OtherWriter(i, delete) ==
  /\ pc = "await"
  /\ others < MaxOther
  /\ tstate[i] = "Write"
  /\ delete => store[BRANCH][i] # 0
  /\ store' = [store EXCEPT ![BRANCH][i] = IF delete THEN 0 ELSE @ + 1]
  /\ others' = others + 1
  /\ UNCHANGED << pc, exitCode, exitCause, configVars, dirState, queueVars,
                  taskVars, endVars, precheck, creation, placeholders, prechecks >>

\* the tasks whose request is in flight
Awaiting(state) == IF pc = "await" THEN {t \in Tasks : tstate[t] = state} ELSE {}

Next ==
  \/ Start
  \/ PrecheckExists
  \/ \E status \in {404} \cup ErrStatuses : PrecheckFails(status)
  \/ CreateOk
  \/ CreateFails
  \/ \E i \in Awaiting("Lookup"), status \in {200, 404} \cup ErrStatuses :
       \E bodySha \in {0, store[LookupBranch][i]} : LookupSettles(i, status, bodySha)
  \/ \E i \in Awaiting("Write"), status \in {200, 201, 409, 422} \cup ErrStatuses :
       \E hasContent \in BOOLEAN : WriteSettles(i, status, hasContent)
  \/ \E i \in Awaiting("Threw") : TaskRejected(i)
  \/ MainCatch
  \/ Finish
  \/ \E i \in Awaiting("Write"), delete \in BOOLEAN : OtherWriter(i, delete)

Spec == Init /\ [][Next]_vars

\* every request eventually settles and every continuation eventually runs
FairSpec == Spec /\ WF_vars(Next)

\* ------------------------------------------------------ properties
Terminal == {"Succeeded", "Failed"}
InFlight == {i \in Tasks : tstate[i] \in {"Lookup", "Write"}}
Succeeded == {i \in Tasks : tstate[i] = "Succeeded"}
PrecheckSucceeded == precheck = "exists" \/ creation = "created"
ReportWritten == report # NoReport
InReport(fileName) == ReportWritten /\ \E k \in 1..Len(report) : report[k].name = fileName

\* C1: for every concurrency limit K >= 1, in every reachable state the number
\* of tasks whose lookup was issued and that are not yet Succeeded or Failed is
\* at most K.
C1_AtMostKInFlight ==
  ValidConcurrency(CONCURRENCY) => Cardinality(InFlight) <= CONCURRENCY

\* the limit is reached while a task waits in the queue
C1_Witness ==
  /\ CONCURRENCY = 2
  /\ Cardinality(InFlight) = 2
  /\ queue # <<>>

\* C2: an error raised inside a task (a failed read of the local file included)
\* becomes a Failed outcome of that task: no task promise is rejected and no
\* task's error reaches the top-level handler.
C2_TaskErrorsIsolated ==
  /\ \A i \in Tasks : tstate[i] # "Rejected"
  /\ exitCause # "task"

C4_LookupErrorFailsWithoutWrite ==
  \A i \in Tasks :
    lookupRes[i].kind \in {"error", "noresponse"} =>
      /\ tstate[i] = "Failed"
      /\ writes[i] = 0
      /\ writeReq[i] = null

\* one lookup ended with an error status, another with no response
C4_Witness ==
  \E i, j \in Tasks :
    /\ lookupRes[i].kind = "error" /\ tstate[i] = "Failed"
    /\ lookupRes[j].kind = "noresponse" /\ tstate[j] = "Failed"

\* C5: once the tasks were submitted, the process ends only when every task is
\* Succeeded or Failed, and then the report is written.
C5_EndsOnlyWhenAllSettled ==
  (pc = "exited" /\ PrecheckSucceeded /\ ValidConcurrency(CONCURRENCY)) =>
    /\ \A i \in Tasks : tstate[i] \in Terminal
    /\ ReportWritten

\* C6: when Promise.all resolves, it resolves with N outcomes and the i-th is
\* the outcome of the task of the i-th file, whatever order the tasks ended in.
C6_OutcomesByIndex ==
  exitCause = "done" =>
    /\ Len(outcomes) = Len(imageFiles)
    /\ \A i \in Tasks :
         /\ tstate[i] = "Failed" => outcomes[i] = null
         /\ tstate[i] = "Succeeded" =>
              outcomes[i] # null /\ outcomes[i].name = imageFiles[i]

\* three outcomes, the second task ended first and failed
C6_Witness ==
  /\ exitCause = "done"
  /\ Len(imageFiles) = 3
  /\ firstSettled = 2
  /\ tstate[1] = "Succeeded" /\ tstate[2] = "Failed" /\ tstate[3] = "Succeeded"

\* C7: when the container pre-check fails with a non-404 error, or the
\* placeholder creation fails, the run ends with a non-zero status, no lookup
\* or write of a file was issued and no report is written.
C7_SetupFailureAborts ==
  (precheck = "error" \/ creation = "failed") =>
    /\ exitCode = "nonzero"
    /\ \A i \in Tasks : lookups[i] = 0 /\ writes[i] = 0 /\ tstate[i] = "Pending"
    /\ ~ReportWritten

\* the pre-check got a 404 and the placeholder creation failed
C7_Witness ==
  /\ precheck = "absent"
  /\ creation = "failed"
  /\ pc = "exited"

\* C8: once the container pre-check has succeeded (and K >= 1), the run ends
\* with exit status zero and the report written.
C8_ExitZeroAfterPrecheck ==
  (pc = "exited" /\ PrecheckSucceeded /\ ValidConcurrency(CONCURRENCY)) =>
    exitCode = "zero" /\ ReportWritten

\* C9: a write whose token is stale when it arrives is rejected by the store:
\* the item is Failed, it is not in the report, and no item is written twice.
C9_StaleWriteFails ==
  \A i \in Tasks :
    /\ writes[i] <= 1
    /\ stale[i] =>
         /\ tstate[i] = "Failed"
         /\ ~writeAcc[i]
         /\ ~InReport(imageFiles[i])

\* another writer changed the object between the lookup and the write
C9_Witness ==
  \E i \in Tasks :
    /\ BRANCH = DefaultBranch
    /\ lookupRes[i].kind = "found"
    /\ others > 0
    /\ stale[i]
    /\ tstate[i] = "Failed"
    /\ exitCause = "done"

\* C10: the summary counts add up to N, and the report holds one
\* {name, github, cdn} record per Succeeded item, none for a Failed one, in
\* submission order.
C10_ReportMatchesOutcomes ==
  exitCause = "done" =>
    /\ summary.success = Cardinality(Succeeded)
    /\ summary.failure = Len(imageFiles) - summary.success
    /\ summary.success + summary.failure = Len(imageFiles)
    /\ Len(report) = Cardinality(Succeeded)
    /\ \A k \in 1..Len(report) :
         /\ DOMAIN report[k] = {"name", "github", "cdn"}
         /\ \E i \in Succeeded :
              /\ Cardinality({j \in Succeeded : j <= i}) = k
              /\ report[k].name = imageFiles[i]
              /\ report[k].github = DownloadUrl(imageFiles[i])
              /\ report[k].cdn = CdnUrl(imageFiles[i])

\* two records although the second file's task ended before the first's, and
\* the third failed
C10_Witness ==
  /\ exitCause = "done"
  /\ Len(imageFiles) = 3
  /\ firstSettled = 2
  /\ tstate[1] = "Succeeded" /\ tstate[2] = "Succeeded" /\ tstate[3] = "Failed"
  /\ Len(report) = 2

\* C11 (as stated): with a non-positive K the run ends with a non-zero status.
C11_NonPositiveKRejected ==
  (CONCURRENCY <= 0 /\ pc = "exited") => exitCode = "nonzero"

\* C11 (amended): with a non-positive K and at least one image file, no task is
\* ever started, the run never waits for tasks, it ends with a non-zero status,
\* and it ends as soon as the container pre-check has succeeded.
C11_NonPositiveKRejectedWithFiles ==
  (CONCURRENCY <= 0 /\ Len(imageFiles) >= 1) =>
    /\ \A i \in Tasks : tstate[i] = "Pending" /\ lookups[i] = 0 /\ writes[i] = 0
    /\ queue = <<>> /\ pendingCount = 0
    /\ pc # "await"
    /\ pc = "exited" => exitCode = "nonzero"
    /\ PrecheckSucceeded => pc = "exited" /\ exitCause = "config"

\* K = 0 is rejected by the queue's constructor after the pre-check
C11_Witness ==
  /\ CONCURRENCY = 0
  /\ Len(imageFiles) = 2
  /\ precheck = "exists"
  /\ exitCause = "config"
  /\ exitCode = "nonzero"

\* C12: when a previous run uploaded every item (each exists on the target
\* branch), no lookup of the rerun answers 404 and, absent other writers, each
\* write carries the token the store holds for the item.
C12_RerunTakesUpdatePath ==
  (\A i \in Tasks : store0[BRANCH][i] # 0) =>
    \A i \in Tasks :
      /\ lookupRes[i].kind # "absent"
      /\ (writeReq[i] # null /\ others = 0) =>
           "sha" \in DOMAIN writeReq[i] /\ writeReq[i].sha = store0[BRANCH][i]

\* C13: with a directory that holds no image file the run starts no task, never
\* waits for one and ends with status zero.
C13_EmptyInputIsNoOp ==
  (dirExists /\ Len(imageFiles) = 0) =>
    /\ pc \in {"start", "exited"}
    /\ queue = <<>> /\ pendingCount = 0
    /\ pc = "exited" => exitCode = "zero"

\* the directory holds only a file that is no image
C13_Witness ==
  /\ Len(dirListing) = 1
  /\ Len(imageFiles) = 0
  /\ pc = "exited"
  /\ exitCode = "zero"

\* C14: the container check is issued at most once and has succeeded before any
\* task starts; the placeholder write is issued iff the check answered 404, and
\* at most once.
C14_PrecheckOncePlaceholderIff404 ==
  /\ prechecks <= 1
  /\ placeholders <= 1
  /\ placeholders = 1 <=> precheck = "absent"
  /\ precheck # "none" => prechecks = 1
  /\ \A i \in Tasks : tstate[i] # "Pending" => prechecks = 1 /\ PrecheckSucceeded

\* the check answered 404, the placeholder was written, a task then succeeded
C14_Witness ==
  /\ precheck = "absent"
  /\ placeholders = 1
  /\ creation = "created"
  /\ \E i \in Tasks : tstate[i] = "Succeeded"

\* C15: with K >= 1 and every request eventually answered, every task of a
\* scheduled batch eventually is Succeeded or Failed.
C15_EveryTaskSettles ==
  \A i \in 1..MaxEntries :
    [](pc = "await" /\ i \in Tasks => <>(i \in Tasks /\ tstate[i] \in Terminal))

C17_OneLookupAtMostOneWrite ==
  \A i \in Tasks :
    /\ lookups[i] <= 1
    /\ writes[i] <= 1
    /\ tstate[i] \in {"Lookup", "Write"} \cup Terminal => lookups[i] = 1
    /\ tstate[i] = "Lookup" => writes[i] = 0 /\ lookupRes[i].kind = "none"
    /\ writes[i] = 1 => lookups[i] = 1 /\ lookupRes[i].kind \in {"found", "absent"}

\* three files: one lookup each, the second item's lookup failed and it was
\* never written
C17_Witness ==
  /\ exitCause = "done"
  /\ Len(imageFiles) = 3
  /\ \A i \in Tasks : lookups[i] = 1
  /\ writes[1] = 1 /\ writes[2] = 0 /\ writes[3] = 1

\* C18: the token a lookup returns is the token the object holds on the branch
\* the write targets.
C18_LookupReadsTargetBranch ==
  \A i \in Tasks :
    lookupRes[i].kind \in {"found", "absent"} => lookupRes[i].token = lookupRes[i].target

\* C19: an item is Succeeded, and in the report, iff the store accepted and
\* applied its write.
C19_SucceededIffAccepted ==
  \A i \in Tasks :
    /\ tstate[i] \in Terminal => (tstate[i] = "Succeeded" <=> writeAcc[i])
    /\ exitCause = "done" => (InReport(imageFiles[i]) <=> writeAcc[i])
====
